---------------------------- MODULE Spec2Model ----------------------------
(***************************************************************************)
(* A model of the bencode codec of src/lib.rs: the cursor-based Decoder,   *)
(* the append-only Encoder, the untyped Value and the structured-record    *)
(* protocol.  Bytes are the integers 0..255, a buffer is a sequence of     *)
(* bytes, a cursor offset is zero-based as in the source (the byte at      *)
(* offset p is data[p + 1]).                                               *)
(***************************************************************************)
EXTENDS Integers, Sequences, FiniteSets, TLC

VARIABLES
    data,    \* Decoder.data.get_ref(): the immutable input buffer
    pos,     \* Decoder.data.position(): the cursor, a u64
    last,    \* the last operation called: its name, argument, start offset, result
    out,     \* Encoder.data: the output buffer
    input,   \* what the buffer was drawn from: the value handed to encode(),
             \* or the parts a bounded input buffer is put together from
    usize_is_u64,    \* the target: TRUE when usize has the width of u64 (a
                     \* 64-bit target), FALSE when it is narrower
    overflow_checks, \* the build: TRUE when arithmetic overflow panics
                     \* (debug), FALSE when it wraps (release)
    frames   \* the invocations of skip_item in progress, the outermost
             \* first: where each one is in its code, and where the cursor
             \* was when the iteration of its loop began

vars == <<data, pos, last, out, input, usize_is_u64, overflow_checks, frames>>

---------------------------------------------------------------------------
(* The bytes the format gives a meaning to.                                *)

B_d     == 100
B_e     == 101
B_i     == 105
B_l     == 108
B_minus == 45
B_colon == 58
B_0     == 48
B_9     == 57

\* Payload bytes of the tests: a letter, and a byte no UTF-8 text contains.
B_a     == 97
B_FF    == 255

Bytes == 0..255

Min2(a, b) == IF a <= b THEN a ELSE b

RECURSIVE Pow2(_)
Pow2(n) == IF n = 0 THEN 1 ELSE 2 * Pow2(n - 1)

---------------------------------------------------------------------------
(* DecodeError, and the result of a decoder operation: Result<T,           *)
(* DecodeError> together with the cursor the operation leaves behind.      *)

Eof               == <<"Eof">>
ExtraneousData    == <<"ExtraneousData">>
InvalidByte(b)    == <<"InvalidByte", b>>
InvalidDict       == <<"InvalidDict">>
InvalidNumber     == <<"InvalidNumber">>
InvalidUtf8       == <<"InvalidUtf8">>
MissingField      == <<"MissingField">>
UnexpectedByte(expected, found) == <<"UnexpectedByte", expected, found>>
\* Not a DecodeError: the thread panics (an arithmetic overflow in a build
\* with overflow checks); nothing is returned and the decoder is lost.
Panic             == <<"panic">>

Unit == <<>>

Ok(v, p)  == [ok |-> TRUE,  val |-> v,    err |-> <<>>, pos |-> p]
Err(e, p) == [ok |-> FALSE, val |-> Unit, err |-> e,    pos |-> p]

---------------------------------------------------------------------------
(* The integer types of trait Integer.  usize is modelled at the width of  *)
(* 16 bits; u64 is as wide, or wider, as usize_is_u64 says.                *)
(* A type of more than 31 bits is given the range -2^30 .. 2^30 - 1, which  *)
(* every numeral of the bounded buffers fits, as it fits the wide type.    *)

UsizeBits == 16

IntType(signed, bits) == [kind |-> "int", signed |-> signed, bits |-> bits]
I8    == IntType(TRUE, 8)
U8    == IntType(FALSE, 8)
I32   == IntType(TRUE, 32)
U32   == IntType(FALSE, 32)
I64   == IntType(TRUE, 64)
Usize == IntType(FALSE, UsizeBits)

MaxValue(T) ==
    LET b == IF T.signed THEN T.bits - 1 ELSE T.bits
    IN  Pow2(Min2(b, 30)) - 1
MinValue(T) ==
    IF T.signed THEN -(MaxValue(T)) - 1 ELSE 0

\* usize arithmetic is modulo 2^UsizeBits.
UsizeModulus == Pow2(UsizeBits)

\* `pos as usize`: the cast keeps the low bits.
AsUsize(p) == p % UsizeModulus

IsDigit(b) == b >= B_0 /\ b <= B_9

\* is_number: whether the byte may appear in a number.
is_number(b) == b = B_minus \/ IsDigit(b)

\* <T as FromStr>::from_str on the digits after the sign: the value is built
\* digit by digit with a checked multiply and a checked add (subtract for a
\* negative number); a byte that is no digit, or a value out of T's range,
\* fails.
RECURSIVE ParseDigits(_, _, _, _)
ParseDigits(T, neg, s, acc) ==
    IF s = <<>> THEN [ok |-> TRUE, val |-> acc]
    ELSE IF ~IsDigit(Head(s)) THEN [ok |-> FALSE, val |-> 0]
    ELSE LET d == Head(s) - B_0
             r == IF neg THEN acc * 10 - d ELSE acc * 10 + d
         IN  IF r > MaxValue(T) \/ r < MinValue(T)
             THEN [ok |-> FALSE, val |-> 0]
             ELSE ParseDigits(T, neg, Tail(s), r)

\* str::parse::<T>() on the bytes read_while(is_number) collected (so the
\* only sign that can occur is '-').  An empty string, a lone sign, and a
\* '-' in front of an unsigned type all fail; leading zeros do not.
ParseInt(T, s) ==
    IF s = <<>> THEN [ok |-> FALSE, val |-> 0]
    ELSE IF Head(s) = B_minus
         THEN IF ~T.signed \/ Tail(s) = <<>>
              THEN [ok |-> FALSE, val |-> 0]
              ELSE ParseDigits(T, TRUE, Tail(s), 0)
         ELSE ParseDigits(T, FALSE, s, 0)

\* format!("{}", t): the decimal digits, '-' first for a negative number.
RECURSIVE FormatNat(_)
FormatNat(n) ==
    IF n < 10 THEN <<B_0 + n>>
    ELSE Append(FormatNat(n \div 10), B_0 + (n % 10))

FormatInt(t) == IF t < 0 THEN <<B_minus>> \o FormatNat(-t) ELSE FormatNat(t)

---------------------------------------------------------------------------
(* String::from_utf8 / str::from_utf8: whether the bytes are well-formed   *)
(* UTF-8 (no overlong forms, no surrogates, nothing above U+10FFFF).       *)

IsCont(b) == b >= 128 /\ b <= 191

RECURSIVE IsUtf8(_)
IsUtf8(s) ==
    IF s = <<>> THEN TRUE
    ELSE LET b == s[1]
             n == Len(s)
         IN  IF b < 128 THEN IsUtf8(Tail(s))
             ELSE IF b >= 194 /\ b <= 223
                  THEN n >= 2 /\ IsCont(s[2]) /\ IsUtf8(SubSeq(s, 3, n))
             ELSE IF b >= 224 /\ b <= 239
                  THEN /\ n >= 3
                       /\ IsCont(s[2]) /\ IsCont(s[3])
                       /\ (b = 224 => s[2] >= 160)
                       /\ (b = 237 => s[2] <= 159)
                       /\ IsUtf8(SubSeq(s, 4, n))
             ELSE IF b >= 240 /\ b <= 244
                  THEN /\ n >= 4
                       /\ IsCont(s[2]) /\ IsCont(s[3]) /\ IsCont(s[4])
                       /\ (b = 240 => s[2] >= 144)
                       /\ (b = 244 => s[2] <= 143)
                       /\ IsUtf8(SubSeq(s, 5, n))
             ELSE FALSE

\* Byte-lexicographic order, the Ord of [u8] and of str.
RECURSIVE LexLess(_, _)
LexLess(a, b) ==
    IF b = <<>> THEN FALSE
    ELSE IF a = <<>> THEN TRUE
    ELSE IF a[1] # b[1] THEN a[1] < b[1]
    ELSE LexLess(Tail(a), Tail(b))

LexLeq(a, b) == a = b \/ LexLess(a, b)

---------------------------------------------------------------------------
(* Decoder: the primitives.  Each operator takes the buffer and the cursor *)
(* and gives the result with the cursor the call leaves behind.            *)

\* try!(r): an error returns from the enclosing function as it is, a
\* success goes on to the rest of the function, K.
Try(r, K(_)) == IF r.ok THEN K(r) ELSE r

\* Decoder::remaining: len - position as usize, a subtraction in usize.
remaining(d, p) ==
    LET r == Len(d) - AsUsize(p)
    IN  IF r >= 0 THEN Ok(r, p)
        ELSE IF overflow_checks THEN Err(Panic, p)
        ELSE Ok(r + UsizeModulus, p)

\* finish that never looks at what remains.
finish_NoCheck(d, p) ==
    Try(remaining(d, p), LAMBDA r: Ok(Unit, p))

\* Decoder::finish
finish(d, p) ==
    Try(remaining(d, p), LAMBDA r:
        IF r.val = 0 THEN Ok(Unit, p) ELSE Err(ExtraneousData, p))

\* Decoder::read on a buffer of k bytes.  Cursor::read copies what is left,
\* up to k bytes, and advances by what it copied, also when that is less
\* than k.
read(d, p, k) ==
    LET amt == Min2(p, Len(d))
        n   == Min2(k, Len(d) - amt)
    IN  IF n = k THEN Ok(SubSeq(d, amt + 1, amt + n), p + n)
        ELSE Err(Eof, p + n)

\* Decoder::read_byte
read_byte(d, p) == Try(read(d, p, 1), LAMBDA r: Ok(r.val[1], r.pos))

\* Decoder::peek_byte
peek_byte(d, p) ==
    LET n == AsUsize(p)
    IN  IF Len(d) > n THEN Ok(d[n + 1], p) ELSE Err(Eof, p)

\* Decoder::peek_bytes.  pos + n is a usize addition; the slice
\* buf[pos..pos + n] panics when its end is below its start.
peek_bytes(d, p, n) ==
    LET start == AsUsize(p)
        sum   == start + n
        end   == sum % UsizeModulus
    IN  IF sum # end /\ overflow_checks THEN Err(Panic, p)
        ELSE IF Len(d) < end THEN Err(Eof, p)
        ELSE IF end < start THEN Err(Panic, p)
        ELSE Ok(SubSeq(d, start + 1, end), p)

\* Decoder::expect
expect(d, p, byte) ==
    Try(read_byte(d, p), LAMBDA r:
        IF r.val = byte THEN Ok(Unit, r.pos)
        ELSE Err(UnexpectedByte(byte, r.val), r.pos))

\* Decoder::skip.  pos as usize + n is a usize addition, pos + n as u64 a
\* u64 addition: where usize is u64 the two sums are one number and
\* overflow together, where usize is narrower the u64 sum is exact.
skip(d, p, n) ==
    LET sum == AsUsize(p) + n
        end == sum % UsizeModulus
    IN  IF sum # end /\ overflow_checks THEN Err(Panic, p)
        ELSE IF Len(d) < end THEN Err(Eof, p)
        ELSE Ok(Unit, IF usize_is_u64 THEN end ELSE p + n)

\* Decoder::skip_while; the predicate is the set of bytes it accepts.
RECURSIVE skip_while(_, _, _)
skip_while(d, p, P) ==
    Try(peek_byte(d, p), LAMBDA b:
        IF b.val \notin P THEN Ok(Unit, p)
        ELSE Try(read_byte(d, p), LAMBDA r: skip_while(d, r.pos, P)))

\* read_while that takes the end of the buffer for the end of the run.
RECURSIVE read_while_loop_EofEnds(_, _, _, _)
read_while_loop_EofEnds(d, p, P, res) ==
    IF ~peek_byte(d, p).ok THEN Ok(res, p)
    ELSE IF peek_byte(d, p).val \notin P THEN Ok(res, p)
    ELSE Try(read_byte(d, p), LAMBDA r:
             read_while_loop_EofEnds(d, r.pos, P, Append(res, r.val)))

RECURSIVE read_while_loop(_, _, _, _)
read_while_loop(d, p, P, res) ==
    Try(peek_byte(d, p), LAMBDA b:
        IF b.val \notin P THEN Ok(res, p)
        ELSE Try(read_byte(d, p), LAMBDA r:
                 read_while_loop(d, r.pos, P, Append(res, r.val))))

\* Decoder::read_while
read_while(d, p, P) == read_while_loop(d, p, P, <<>>)

\* The bytes is_number accepts.
NumberBytes == {b \in Bytes : is_number(b)}

\* The result of str::parse as read_number's: ok_or(InvalidNumber).
OkOrInvalidNumber(n, p) ==
    IF n.ok THEN Ok(n.val, p) ELSE Err(InvalidNumber, p)

\* read_number without the check for "-0".
read_number_NoMinusZero(T, d, p) ==
    Try(read_while(d, p, NumberBytes), LAMBDA r:
        IF \/ r.val = <<>>
           \/ (Len(r.val) > 1 /\ r.val[1] = B_0)
        THEN Err(InvalidNumber, r.pos)
        ELSE OkOrInvalidNumber(ParseInt(T, r.val), r.pos))

\* Decoder::read_number::<T>
read_number(T, d, p) ==
    Try(read_while(d, p, NumberBytes), LAMBDA r:
        IF \/ r.val = <<>>
           \/ (Len(r.val) > 1 /\ r.val[1] = B_0)
           \/ r.val = <<B_minus, B_0>>
        THEN Err(InvalidNumber, r.pos)
        ELSE OkOrInvalidNumber(ParseInt(T, r.val), r.pos))

\* Decoder::read_integer::<T>
read_integer(T, d, p) ==
    Try(expect(d, p, B_i), LAMBDA a:
    Try(read_number(T, d, a.pos), LAMBDA n:
    Try(expect(d, n.pos, B_e), LAMBDA z:
        Ok(n.val, z.pos))))

\* Decoder::read_bytes
read_bytes(d, p) ==
    Try(read_number(Usize, d, p), LAMBDA n:
    Try(expect(d, n.pos, B_colon), LAMBDA c:
    Try(remaining(d, c.pos), LAMBDA rem:
        IF rem.val < n.val THEN Err(Eof, c.pos)
        ELSE read(d, c.pos, n.val))))

\* Decoder::read_str
read_str(d, p) ==
    Try(read_bytes(d, p), LAMBDA r:
        IF IsUtf8(r.val) THEN r ELSE Err(InvalidUtf8, r.pos))

---------------------------------------------------------------------------
(* Value, and the types a value is decoded into.  A BTreeMap<String, T> is *)
(* the sequence of its <<key, value>> entries in key order, a Vec<T> a     *)
(* sequence, an Option<T> the empty sequence or a sequence of one.         *)

VInteger(i) == [tag |-> "Integer", int   |-> i]
VBytes(b)   == [tag |-> "Bytes",   bytes |-> b]
VString(s)  == [tag |-> "String",  str   |-> s]
VList(l)    == [tag |-> "List",    list  |-> l]
VDict(m)    == [tag |-> "Dict",    dict  |-> m]

None    == <<>>
Some(v) == <<v>>

\* The target types (impl Decodable for ...).  A struct is the sequence of
\* the fields its decode reads inside read_struct, in the order it reads
\* them: read_field for a required field, read_option for an optional one.
TValue      == [kind |-> "Value"]
TString     == [kind |-> "String"]
TByteString == [kind |-> "ByteString"]
TVec(T)     == [kind |-> "Vec", elem |-> T]
TMap(T)     == [kind |-> "Map", elem |-> T]
TStruct(fs) == [kind |-> "Struct", fields |-> fs]
Field(name, T, optional) == [name |-> name, type |-> T, optional |-> optional]

\* BTreeMap::insert: the entry goes to its place in key order and replaces
\* an entry with an equal key.
RECURSIVE MapInsert(_, _, _)
MapInsert(m, k, v) ==
    IF m = <<>> THEN <<<<k, v>>>>
    ELSE IF m[1][1] = k THEN <<<<k, v>>>> \o Tail(m)
    ELSE IF LexLess(k, m[1][1]) THEN <<<<k, v>>>> \o m
    ELSE <<m[1]>> \o MapInsert(Tail(m), k, v)

---------------------------------------------------------------------------
(* Decoder: the format readers.                                            *)

RECURSIVE decode_from(_, _, _)
RECURSIVE read_dict_loop(_, _, _, _)
RECURSIVE read_list_loop(_, _, _, _)
RECURSIVE skip_item(_, _)
RECURSIVE skip_dict_loop(_, _)
RECURSIVE skip_list_loop(_, _)
RECURSIVE read_field_loop(_, _, _, _, _)
RECURSIVE read_fields(_, _, _, _)
RECURSIVE skip_fields_loop(_, _, _)

\* The key check with < for <=: a repeated key passes.
KeyRefused_Less(res, k) ==
    res # <<>> /\ LexLess(k, res[Len(res)][1])

\* The key check of read_dict: with entries already read, a key that is not
\* greater than the greatest of them is refused.
KeyRefused(res, k) ==
    res # <<>> /\ LexLeq(k, res[Len(res)][1])

\* The loop of Decoder::read_dict::<T>.
read_dict_loop(T, d, p, res) ==
    Try(peek_byte(d, p), LAMBDA b:
        IF b.val = B_e THEN Ok(res, p)
        ELSE Try(read_str(d, p), LAMBDA k:
             IF KeyRefused(res, k.val) THEN Err(InvalidDict, k.pos)
             ELSE Try(decode_from(T, d, k.pos), LAMBDA v:
                      read_dict_loop(T, d, v.pos,
                                     MapInsert(res, k.val, v.val)))))

\* Decoder::read_dict::<T>
read_dict(T, d, p) ==
    Try(expect(d, p, B_d), LAMBDA a:
    Try(read_dict_loop(T, d, a.pos, <<>>), LAMBDA r:
    Try(expect(d, r.pos, B_e), LAMBDA z:
        Ok(r.val, z.pos))))

\* The loop of Decoder::read_list::<T>.
read_list_loop(T, d, p, res) ==
    Try(peek_byte(d, p), LAMBDA b:
        IF b.val = B_e THEN Ok(res, p)
        ELSE Try(decode_from(T, d, p), LAMBDA v:
                 read_list_loop(T, d, v.pos, Append(res, v.val))))

\* Decoder::read_list::<T>
read_list(T, d, p) ==
    Try(expect(d, p, B_l), LAMBDA a:
    Try(read_list_loop(T, d, a.pos, <<>>), LAMBDA r:
    Try(expect(d, r.pos, B_e), LAMBDA z:
        Ok(r.val, z.pos))))

\* The loop of the dictionary arm of skip_item: a key and a value a turn.
skip_dict_loop(d, p) ==
    Try(peek_byte(d, p), LAMBDA b:
        IF b.val = B_e THEN Ok(Unit, p)
        ELSE Try(skip_item(d, p), LAMBDA k:
             Try(skip_item(d, k.pos), LAMBDA v:
                 skip_dict_loop(d, v.pos))))

\* The loop of the list arm of skip_item.
skip_list_loop(d, p) ==
    Try(peek_byte(d, p), LAMBDA b:
        IF b.val = B_e THEN Ok(Unit, p)
        ELSE Try(skip_item(d, p), LAMBDA v:
                 skip_list_loop(d, v.pos)))

\* skip_item whose integer arm leaves the closing 'e' unread.
skip_item_IntegerOpen(d, p) ==
    Try(peek_byte(d, p), LAMBDA b:
        IF b.val = B_d
        THEN Try(read_byte(d, p), LAMBDA a:
             Try(skip_dict_loop(d, a.pos), LAMBDA r:
                 expect(d, r.pos, B_e)))
        ELSE IF b.val = B_i
        THEN Try(expect(d, p, B_i), LAMBDA a:
                 skip_while(d, a.pos, NumberBytes))
        ELSE IF b.val = B_l
        THEN Try(read_byte(d, p), LAMBDA a:
             Try(skip_list_loop(d, a.pos), LAMBDA r:
                 expect(d, r.pos, B_e)))
        ELSE IF IsDigit(b.val)
        THEN Try(read_number(Usize, d, p), LAMBDA n:
             Try(expect(d, n.pos, B_colon), LAMBDA c:
                 skip(d, c.pos, n.val)))
        ELSE Err(InvalidByte(b.val), p))

\* Decoder::skip_item
skip_item(d, p) ==
    Try(peek_byte(d, p), LAMBDA b:
        IF b.val = B_d
        THEN Try(read_byte(d, p), LAMBDA a:
             Try(skip_dict_loop(d, a.pos), LAMBDA r:
                 expect(d, r.pos, B_e)))
        ELSE IF b.val = B_i
        THEN Try(expect(d, p, B_i), LAMBDA a:
             Try(skip_while(d, a.pos, NumberBytes), LAMBDA r:
                 expect(d, r.pos, B_e)))
        ELSE IF b.val = B_l
        THEN Try(read_byte(d, p), LAMBDA a:
             Try(skip_list_loop(d, a.pos), LAMBDA r:
                 expect(d, r.pos, B_e)))
        ELSE IF IsDigit(b.val)
        THEN Try(read_number(Usize, d, p), LAMBDA n:
             Try(expect(d, n.pos, B_colon), LAMBDA c:
                 skip(d, c.pos, n.val)))
        ELSE Err(InvalidByte(b.val), p))

\* The scan of read_field without set_position(pos) on a miss: the cursor
\* stays where the scan stopped.
RECURSIVE read_field_loop_NoRestore(_, _, _, _, _)
read_field_loop_NoRestore(T, name, d, p, pos0) ==
    Try(peek_byte(d, p), LAMBDA b:
        IF b.val = B_e THEN Err(MissingField, p)
        ELSE Try(read_str(d, p), LAMBDA key:
             IF name = key.val THEN decode_from(T, d, key.pos)
             ELSE IF LexLess(key.val, name)
             THEN Try(skip_item(d, key.pos), LAMBDA s:
                      read_field_loop_NoRestore(T, name, d, s.pos, pos0))
             ELSE Err(MissingField, key.pos)))

\* The scan of Decoder::read_field::<T>; pos0 is the cursor saved on entry,
\* which a miss puts back.
read_field_loop(T, name, d, p, pos0) ==
    Try(peek_byte(d, p), LAMBDA b:
        IF b.val = B_e THEN Err(MissingField, pos0)
        ELSE Try(read_str(d, p), LAMBDA key:
             IF name = key.val THEN decode_from(T, d, key.pos)
             ELSE IF LexLess(key.val, name)
             THEN Try(skip_item(d, key.pos), LAMBDA s:
                      read_field_loop(T, name, d, s.pos, pos0))
             ELSE Err(MissingField, pos0)))

\* Decoder::read_field::<T>
read_field(T, name, d, p) == read_field_loop(T, name, d, p, p)

\* The match of read_option on read_field's result.
SomeOrNone(r) ==
    IF r.ok THEN Ok(Some(r.val), r.pos)
    ELSE IF r.err = MissingField THEN Ok(None, r.pos)
    ELSE r

\* Decoder::read_option::<T>
read_option(T, name, d, p) == SomeOrNone(read_field(T, name, d, p))

\* The closure a struct's decode hands to read_struct: the fields are read
\* one after the other, each with try!.
read_fields(fs, d, p, res) ==
    IF fs = <<>> THEN Ok(res, p)
    ELSE Try(IF Head(fs).optional
             THEN read_option(Head(fs).type, Head(fs).name, d, p)
             ELSE read_field(Head(fs).type, Head(fs).name, d, p),
             LAMBDA r: read_fields(Tail(fs), d, r.pos, Append(res, r.val)))

\* read_struct without the loop over the fields left unread.
skip_fields_loop_NoSkip(d, p, res) == Ok(res, p)

\* The loop of read_struct that skips the fields left unread.
skip_fields_loop(d, p, res) ==
    Try(peek_byte(d, p), LAMBDA b:
        IF b.val = B_e THEN Ok(res, p)
        ELSE Try(skip_item(d, p), LAMBDA k:
             Try(skip_item(d, k.pos), LAMBDA v:
                 skip_fields_loop(d, v.pos, res))))

\* Decoder::read_struct, with the closure that reads the fields fs.
read_struct(fs, d, p) ==
    Try(expect(d, p, B_d), LAMBDA a:
    Try(read_fields(fs, d, a.pos, <<>>), LAMBDA res:
    Try(skip_fields_loop(d, res.pos, res.val), LAMBDA r:
    Try(expect(d, r.pos, B_e), LAMBDA z:
        Ok(r.val, z.pos)))))

\* Value's decode of a byte string without the attempt at UTF-8.
StringOrBytes_NoUtf8(r) == Ok(VBytes(r.val), r.pos)

\* The match of Value's decode on String::from_utf8.
StringOrBytes(r) ==
    IF IsUtf8(r.val) THEN Ok(VString(r.val), r.pos)
    ELSE Ok(VBytes(r.val), r.pos)

\* impl Decodable for Value
value_decode(d, p) ==
    Try(peek_byte(d, p), LAMBDA b:
        IF b.val = B_d
        THEN Try(read_dict(TValue, d, p), LAMBDA r: Ok(VDict(r.val), r.pos))
        ELSE IF b.val = B_i
        THEN Try(read_integer(I64, d, p), LAMBDA r: Ok(VInteger(r.val), r.pos))
        ELSE IF b.val = B_l
        THEN Try(read_list(TValue, d, p), LAMBDA r: Ok(VList(r.val), r.pos))
        ELSE IF IsDigit(b.val)
        THEN Try(read_bytes(d, p), LAMBDA r: StringOrBytes(r))
        ELSE Err(InvalidByte(b.val), p))

\* Decodable::decode for the target type T.
decode_from(T, d, p) ==
    CASE T.kind = "Value"      -> value_decode(d, p)
      [] T.kind = "int"        -> read_integer(T, d, p)
      [] T.kind = "String"     -> read_str(d, p)
      [] T.kind = "ByteString" -> read_bytes(d, p)
      [] T.kind = "Vec"        -> read_list(T.elem, d, p)
      [] T.kind = "Map"        -> read_dict(T.elem, d, p)
      [] T.kind = "Struct"     -> read_struct(T.fields, d, p)

\* decode::<T>(data): a new Decoder, the value, then finish.
decode(T, d) ==
    Try(decode_from(T, d, 0), LAMBDA res:
    Try(finish(d, res.pos), LAMBDA f:
        res))

\* Sha1 of the sha1 crate, update(bytes) then output: the digest stands for
\* the bytes it was made of, two byte strings having two digests.
Sha1(bytes) == [sha1 |-> bytes]

\* <Hash as Decodable>::decode.  end - start is a subtraction of u64, and
\* as usize keeps its low bits; peek_bytes fails with the cursor at start.
hash_decode(d, p) ==
    Try(skip_item(d, p), LAMBDA r:
        IF r.pos < p /\ overflow_checks THEN Err(Panic, r.pos)
        ELSE Try(peek_bytes(d, p, AsUsize(r.pos - p)), LAMBDA b:
                 Ok(Sha1(b.val), r.pos)))

---------------------------------------------------------------------------
(* Encoder: each operator takes the buffer and gives the buffer after the  *)
(* write (no write fails: EncodeError has no variant).                     *)

RECURSIVE encode_to(_, _, _)
RECURSIVE value_encode(_, _)
RECURSIVE write_dict_loop(_, _, _)
RECURSIVE write_list_loop(_, _, _)
RECURSIVE write_fields(_, _, _)

\* Encoder::write_byte
write_byte(e, b) == Append(e, b)

\* write that puts the bytes in the place of the buffer.
write_Overwrites(e, bs) == bs

\* Encoder::write
write(e, bs) == e \o bs

\* write_integer without the 'i' and the 'e'.
write_integer_Bare(e, t) == write(e, FormatInt(t))

\* Encoder::write_integer
write_integer(e, t) ==
    write_byte(write(write_byte(e, B_i), FormatInt(t)), B_e)

\* Encoder::write_number
write_number(e, t) == write(e, FormatInt(t))

\* Encoder::write_bytes
write_bytes(e, b) ==
    write(write_byte(write_number(e, Len(b)), B_colon), b)

\* Encoder::write_str
write_str(e, s) == write_bytes(e, s)

\* The loop of Encoder::write_dict over the entries of a map of values of
\* type T, in key order.
write_dict_loop(T, e, m) ==
    IF m = <<>> THEN e
    ELSE write_dict_loop(T, encode_to(T, write_str(e, m[1][1]), m[1][2]), Tail(m))

\* Encoder::write_dict
write_dict(T, e, m) == write_byte(write_dict_loop(T, write_byte(e, B_d), m), B_e)

\* The loop of Encoder::write_list over a slice of values of type T.
write_list_loop(T, e, l) ==
    IF l = <<>> THEN e
    ELSE write_list_loop(T, encode_to(T, e, Head(l)), Tail(l))

\* Encoder::write_list
write_list(T, e, l) == write_byte(write_list_loop(T, write_byte(e, B_l), l), B_e)

\* Encoder::write_struct, f being the callable.
write_struct(e, f(_)) == write_byte(f(write_byte(e, B_d)), B_e)

\* Encoder::write_field
write_field(T, e, name, t) == encode_to(T, write_str(e, name), t)

\* write_option that writes the name of an absent field, and no value.
write_option_Placeholder(T, e, name, t) ==
    IF t # None THEN write_field(T, e, name, t[1]) ELSE write_str(e, name)

\* Encoder::write_option
write_option(T, e, name, t) ==
    IF t # None THEN write_field(T, e, name, t[1]) ELSE e

\* The callable of a struct's encode (test_struct: impl Encodable for Test,
\* for Test2): write_option for an optional field and write_field for
\* another, in the order of the fields.
write_fields(fs, e, ts) ==
    IF fs = <<>> THEN e
    ELSE write_fields(Tail(fs),
                      IF Head(fs).optional
                      THEN write_option(Head(fs).type, e, Head(fs).name, Head(ts))
                      ELSE write_field(Head(fs).type, e, Head(fs).name, Head(ts)),
                      Tail(ts))

\* impl Encodable for Value
value_encode(e, v) ==
    CASE v.tag = "Integer" -> write_integer(e, v.int)
      [] v.tag = "Bytes"   -> write_bytes(e, v.bytes)
      [] v.tag = "String"  -> write_str(e, v.str)
      [] v.tag = "List"    -> write_list(TValue, e, v.list)
      [] v.tag = "Dict"    -> write_dict(TValue, e, v.dict)

\* Encodable::encode of a value t of type T.
encode_to(T, e, t) ==
    CASE T.kind = "Value"      -> value_encode(e, t)
      [] T.kind = "int"        -> write_integer(e, t)
      [] T.kind = "String"     -> write_str(e, t)
      [] T.kind = "ByteString" -> write_bytes(e, t)
      [] T.kind = "Vec"        -> write_list(T.elem, e, t)
      [] T.kind = "Map"        -> write_dict(T.elem, e, t)
      [] T.kind = "Struct"     ->
             write_struct(e, LAMBDA x: write_fields(T.fields, x, t))

\* encode(&v) for a Value: a new Encoder, the value, into_bytes.
encode(v) == value_encode(<<>>, v)

---------------------------------------------------------------------------
(* The state machine of one Decoder: every public operation is an action   *)
(* that runs the whole call on the cursor and records the call in `last`.  *)

Call(op, arg, start, res) == [op |-> op, arg |-> arg, start |-> start, res |-> res]

\* No operation yet: Decoder::new leaves the cursor at 0.
New == Call("new", Unit, 0, Ok(Unit, 0))

\* A panic unwinds through the caller and finish(self) consumes the
\* decoder: after either there is no decoder left to call.
Usable == last.res.err # Panic /\ last.op # "finish"

\* The effect of an operation of the decoder on the state.
Does(op, arg, res) ==
    /\ last' = Call(op, arg, pos, res)
    /\ pos' = res.pos
    /\ UNCHANGED <<data, out, input, usize_is_u64, overflow_checks, frames>>

\* Bounds of the inputs and of the arguments the actions draw.
MaxRaw   == 2      \* length of a raw input buffer
MaxCount == 1      \* byte counts given to read, skip and peek_bytes
PosSlack == 1      \* how far past the end set_position is asked to go
MaxRun   == 3      \* length of the run of number bytes in a numeral
MaxPairs == 2      \* key/value pairs in a generated dictionary
MaxNodes == 3      \* scalars and containers in a generated Value

\* Counts near the top of usize, as well as small ones.
Counts == (0..MaxCount) \cup {UsizeModulus - 1 - k : k \in 0..MaxCount}

\* The cursor is kept below this by the guard of Skip.
PosCap == 2 * UsizeModulus

IntTypes == {I8, U8, I64}
ElemTypes == {TValue, I8}
\* The keys of the tests: a, bar, dadada, fo (a prefix of foo), foo, zz.
Name_a      == <<97>>
Name_bar    == <<98, 97, 114>>
Name_dadada == <<100, 97, 100, 97, 100, 97>>
Name_fo     == <<102, 111>>
Name_foo    == <<102, 111, 111>>
Name_zz     == <<122, 122>>
\* struct Test2 { bar: Option<i32>, foo: i32 }: its decode reads bar with
\* read_option, then foo with read_field.
Test2 == <<Field(Name_bar, I32, TRUE), Field(Name_foo, I32, FALSE)>>

Remaining ==
    /\ Usable
    /\ Does("remaining", Unit, remaining(data, pos))
Position ==
    /\ Usable
    /\ Does("position", Unit, Ok(pos, pos))
SetPosition ==
    /\ Usable
    /\ \E p \in 0..(Len(data) + PosSlack) : Does("set_position", p, Ok(Unit, p))
Finish ==
    /\ Usable
    /\ Does("finish", Unit, finish(data, pos))
Read ==
    /\ Usable
    /\ \E k \in 0..(MaxCount + 1) : Does("read", k, read(data, pos, k))
ReadByte ==
    /\ Usable
    /\ Does("read_byte", Unit, read_byte(data, pos))
PeekByte ==
    /\ Usable
    /\ Does("peek_byte", Unit, peek_byte(data, pos))
PeekBytes ==
    /\ Usable
    /\ \E n \in Counts : Does("peek_bytes", n, peek_bytes(data, pos, n))
Expect ==
    /\ Usable
    /\ \E b \in {B_e, B_colon} : Does("expect", b, expect(data, pos, b))
Skip ==
    /\ Usable
    /\ \E n \in Counts :
           /\ skip(data, pos, n).pos <= PosCap
           /\ Does("skip", n, skip(data, pos, n))
SkipWhile ==
    /\ Usable
    /\ Does("skip_while", "is_number", skip_while(data, pos, NumberBytes))
ReadWhile ==
    /\ Usable
    /\ Does("read_while", "is_number", read_while(data, pos, NumberBytes))
ReadNumber ==
    /\ Usable
    /\ \E T \in IntTypes \cup {Usize} :
           Does("read_number", T, read_number(T, data, pos))
ReadInteger ==
    /\ Usable
    /\ \E T \in IntTypes : Does("read_integer", T, read_integer(T, data, pos))
ReadBytes ==
    /\ Usable
    /\ Does("read_bytes", Unit, read_bytes(data, pos))
ReadStr ==
    /\ Usable
    /\ Does("read_str", Unit, read_str(data, pos))
ReadDict ==
    /\ Usable
    /\ \E T \in ElemTypes : Does("read_dict", T, read_dict(T, data, pos))
ReadList ==
    /\ Usable
    /\ \E T \in ElemTypes : Does("read_list", T, read_list(T, data, pos))
FieldNames == {Name_bar, Name_foo}

ReadStruct ==
    /\ Usable
    /\ Does("read_struct", Test2, read_struct(Test2, data, pos))
ReadField ==
    /\ Usable
    /\ \E name \in FieldNames, T \in {TValue, I32} :
           Does("read_field", [name |-> name, type |-> T],
                read_field(T, name, data, pos))
ReadOption ==
    /\ Usable
    /\ \E name \in FieldNames, T \in {TValue, I32} :
           Does("read_option", [name |-> name, type |-> T],
                read_option(T, name, data, pos))
SkipItem ==
    /\ Usable
    /\ Does("skip_item", Unit, skip_item(data, pos))
ValueDecode ==
    /\ Usable
    /\ Does("value_decode", Unit, value_decode(data, pos))
HashDecode ==
    /\ Usable
    /\ Does("hash_decode", Unit, hash_decode(data, pos))

\* decode::<T>(data): the function makes a Decoder of its own over the
\* buffer, so the cursor of this one stays.
Decode ==
    /\ Usable
    /\ \E T \in {TValue, TString, I8, TMap(I8)} :
           /\ last' = Call("decode", T, 0, decode(T, data))
           /\ UNCHANGED <<data, pos, out, input, usize_is_u64, overflow_checks, frames>>

---------------------------------------------------------------------------
(* Spec: one decoder over a raw buffer, any operation after any other.     *)

RawAlphabet == {B_d, B_e, B_i, B_l, B_0 + 1, B_colon}

RECURSIVE SeqsUpTo(_, _)
SeqsUpTo(S, n) ==
    IF n = 0 THEN {<<>>}
    ELSE LET shorter == SeqsUpTo(S, n - 1)
         IN  shorter \cup {Append(q, x) : q \in shorter, x \in S}

\* Inputs of the tests of the source.
\* test_decoder: 4:spam4:eggsi123eli1ei2ei3eed3:foo3:bare
Buf_test_decoder ==
    << 52, 58, 115, 112, 97, 109,   52, 58, 101, 103, 103, 115,
       105, 49, 50, 51, 101,   108, 105, 49, 101, 105, 50, 101, 105, 51, 101, 101,
       100, 51, 58, 102, 111, 111, 51, 58, 98, 97, 114, 101 >>
\* test_struct_fields: d1:a6:lalala3:bari999e6:dadadai1e3:fooi111e2:zzi1ee
Buf_struct_fields ==
    << 100,   49, 58, 97,   54, 58, 108, 97, 108, 97, 108, 97,
       51, 58, 98, 97, 114,   105, 57, 57, 57, 101,
       54, 58, 100, 97, 100, 97, 100, 97,   105, 49, 101,
       51, 58, 102, 111, 111,   105, 49, 49, 49, 101,
       50, 58, 122, 122,   105, 49, 101,   101 >>
\* test_value's byte string that is no UTF-8, in a list: l3:\xaa\xbb\xcc4:ohaie
Buf_test_value ==
    << 108, 51, 58, 170, 187, 204, 52, 58, 111, 104, 97, 105, 101 >>

TestBuffers == {Buf_test_decoder, Buf_struct_fields, Buf_test_value}

RawBuffers == SeqsUpTo(RawAlphabet, MaxRaw) \cup TestBuffers

Init ==
    /\ data \in RawBuffers
    /\ pos = 0
    /\ last = New
    /\ out = <<>>
    /\ input = [family |-> "raw"]
    /\ usize_is_u64 \in BOOLEAN
    /\ overflow_checks \in BOOLEAN
    /\ frames = <<>>

Next ==
    \/ Remaining \/ Position \/ SetPosition \/ Finish
    \/ Read \/ ReadByte \/ PeekByte \/ PeekBytes \/ Expect
    \/ Skip \/ SkipWhile \/ ReadWhile
    \/ ReadNumber \/ ReadInteger \/ ReadBytes \/ ReadStr
    \/ ReadDict \/ ReadList \/ ReadStruct \/ ReadField \/ ReadOption
    \/ SkipItem \/ ValueDecode \/ Decode

Spec == Init /\ [][Next]_vars

\* C7: after any sequence of operations of the decoder, set_position with
\* any argument among them, the cursor is between 0 and the length of the
\* buffer, remaining() is the length minus the cursor, and the bytes an
\* operation returns are bytes of the buffer.
C7_CursorInvariant ==
    /\ pos >= 0
    /\ pos <= Len(data)
    /\ last.op = "remaining"
        => last.res = Ok(Len(data) - last.start, last.start)
    /\ (last.op \in {"read", "peek_bytes", "read_while", "read_bytes"}
          /\ last.res.ok)
        => \E a \in 0..Len(data) :
               /\ a + Len(last.res.val) <= Len(data)
               /\ last.res.val = SubSeq(data, a + 1, a + Len(last.res.val))

\* C16: with the cursor at an offset p within the buffer of length L,
\* skip(n) succeeds exactly when n <= L - p and then leaves the cursor at
\* p + n, and otherwise returns Eof with the cursor at p; peek_bytes(n)
\* succeeds exactly when n <= L - p and returns buffer[p..p + n], otherwise
\* returns Eof, and never moves the cursor; and this for every n of usize.
C16_BoundsChecked ==
    (last.op \in {"skip", "peek_bytes"} /\ last.start <= Len(data))
        => LET p == last.start
               n == last.arg
               L == Len(data)
           IN  IF last.op = "skip"
               THEN last.res = (IF n <= L - p THEN Ok(Unit, p + n)
                                ELSE Err(Eof, p))
               ELSE last.res = (IF n <= L - p
                                THEN Ok(SubSeq(data, p + 1, p + n), p)
                                ELSE Err(Eof, p))

---------------------------------------------------------------------------
(* SpecDecode: the format readers and decode() over input buffers put      *)
(* together from parts: numerals and dictionaries.  SpecLead: Value's      *)
(* decode and decode() over buffers with every lead byte.                  *)

\* A numeral: a run of number bytes, as an integer i<run>e or as the length
\* of a byte string <run>:a.
RunBytes == {B_minus, B_0, B_0 + 1, B_0 + 8}

NumberInputs ==
    [family : {"number"}, form : {"integer", "length"},
     run : SeqsUpTo(RunBytes, MaxRun)]

\* A dictionary d<key><value>...e: the pairs in any order, keys repeated or
\* not.  A pair is <<key, value>>.
DictKeys == {Name_bar, Name_fo, Name_foo}
DictPairs ==
    {<<k, VInteger(0)>> : k \in DictKeys} \cup {<<Name_foo, VList(<<>>)>>}

DictInputs == [family : {"dict"}, pairs : SeqsUpTo(DictPairs, MaxPairs)]

\* The wire form of pairs, one after the other.
RECURSIVE PairsBytes(_)
PairsBytes(ps) ==
    IF ps = <<>> THEN <<>>
    ELSE value_encode(write_str(<<>>, ps[1][1]), ps[1][2]) \o PairsBytes(Tail(ps))

\* Any byte, followed by one of a few tails that complete a value after
\* some lead byte: e, 1e, :a, :\xff, 1:\xffe, or nothing.
LeadTails ==
    { <<>>, <<B_e>>, <<B_0 + 1, B_e>>, <<B_colon, B_a>>, <<B_colon, B_FF>>,
      <<B_0 + 1, B_colon, B_FF, B_e>> }

LeadInputs == [family : {"lead"}, lead : Bytes, tail : LeadTails]

BufferOf(in) ==
    CASE in.family = "number" ->
             IF in.form = "integer" THEN <<B_i>> \o in.run \o <<B_e>>
             ELSE in.run \o <<B_colon, B_a>>
      [] in.family = "dict" -> <<B_d>> \o PairsBytes(in.pairs) \o <<B_e>>
      [] in.family = "lead" -> <<in.lead>> \o in.tail

InitDecode ==
    /\ \/ input \in NumberInputs
       \/ input \in DictInputs
    /\ data = BufferOf(input)
    /\ pos = 0
    /\ last = New
    /\ out = <<>>
    /\ usize_is_u64 = TRUE
    /\ overflow_checks \in BOOLEAN
    /\ frames = <<>>

NextDecode ==
    \/ ReadByte \/ ReadNumber \/ ReadInteger \/ ReadBytes
    \/ ReadDict \/ ValueDecode \/ Decode

SpecDecode == InitDecode /\ [][NextDecode]_vars

InitLead ==
    /\ input \in LeadInputs
    /\ data = BufferOf(input)
    /\ pos = 0
    /\ last = New
    /\ out = <<>>
    /\ usize_is_u64 = TRUE
    /\ overflow_checks \in BOOLEAN
    /\ frames = <<>>

NextLead ==
    \/ ReadByte \/ ValueDecode \/ SkipItem \/ Finish \/ Decode

SpecLead == InitLead /\ [][NextLead]_vars

---------------------------------------------------------------------------
(* Properties of the format readers, under SpecDecode.                     *)

\* C2: no alternate encodings are accepted: whenever decode::<Value>(b)
\* succeeds with the value v, encode(v) is byte for byte the buffer b.
C2_NoAlternateEncodings ==
    (last.op = "decode" /\ last.arg.kind = "Value" /\ last.res.ok)
        => encode(last.res.val) = data

\* The number a numeral of digits stands for.
RECURSIVE DigitsValue(_)
DigitsValue(s) ==
    IF s = <<>> THEN 0
    ELSE DigitsValue(SubSeq(s, 1, Len(s) - 1)) * 10 + (s[Len(s)] - B_0)

\* A run is a numeral when it is digits, after a '-' or not.
Digits(s) == s # <<>> /\ \A i \in 1..Len(s) : s[i] >= B_0 /\ s[i] <= B_9
IsNumeral(run) ==
    Digits(IF run # <<>> /\ run[1] = B_minus THEN Tail(run) ELSE run)
NumeralValue(run) ==
    IF run[1] = B_minus THEN -DigitsValue(Tail(run)) ELSE DigitsValue(run)

\* Whether the number n is a value of the integer type T (a numeral of the
\* bounded inputs is below 2^30 and fits every type of 32 bits or more).
Fits(n, T) ==
    IF T.bits > 30 THEN TRUE
    ELSE IF T.signed THEN n >= -Pow2(T.bits - 1) /\ n < Pow2(T.bits - 1)
    ELSE n >= 0 /\ n < Pow2(T.bits)

\* The runs C3 says read_number::<T> refuses.
Noncanonical(run, T) ==
    \/ run = <<>>
    \/ Len(run) > 1 /\ run[1] = B_0
    \/ run = <<B_minus, B_0>>
    \/ \E i \in 2..Len(run) : run[i] = B_minus
    \/ IsNumeral(run) /\ ~Fits(NumeralValue(run), T)

\* The integer type the run of the input is read as by the last call, in a
\* sequence of one; the empty sequence when the call does not get to
\* read_number on the run.
C3_Target ==
    IF input.family # "number" THEN <<>>
    ELSE IF last.op = "read_number"
    THEN IF last.start = (IF input.form = "integer" THEN 1 ELSE 0)
         THEN <<last.arg>> ELSE <<>>
    ELSE IF last.start # 0 THEN <<>>
    ELSE IF input.form = "integer"
    THEN IF last.op = "read_integer" THEN <<last.arg>>
         ELSE IF last.op = "decode" /\ last.arg.kind = "int" THEN <<last.arg>>
         ELSE IF \/ last.op = "value_decode"
                 \/ last.op = "decode" /\ last.arg.kind = "Value"
         THEN <<I64>>
         ELSE <<>>
    ELSE IF \/ last.op \in {"read_bytes", "read_str"}
            \/ last.op = "decode" /\ last.arg.kind = "String"
    THEN <<Usize>>
    ELSE IF /\ \/ last.op = "value_decode"
               \/ last.op = "decode" /\ last.arg.kind = "Value"
            /\ input.run # <<>>
            /\ input.run[1] # B_minus
    THEN <<Usize>>
    ELSE <<>>

\* C3: read_number, reading a run of number bytes that another byte ends
\* (as an integer between 'i' and 'e', or as the length of a byte string),
\* fails with InvalidNumber whenever the run is empty, has a leading '0'
\* without being "0", is "-0", has a '-' after its first byte, or stands
\* for a number that is no value of the target type.
C3_InvalidNumber ==
    (C3_Target # <<>> /\ Noncanonical(input.run, C3_Target[1]))
        => (~last.res.ok /\ last.res.err = InvalidNumber)

\* decode::<i8> of i-0e has failed with InvalidNumber.
C3_Witness ==
    /\ input.family = "number"
    /\ input.form = "integer"
    /\ input.run = <<B_minus, B_0>>
    /\ last.op = "decode"
    /\ last.arg.kind = "int"
    /\ last.res.err = InvalidNumber

\* The first pair of ps whose key is not above the key before it in byte
\* order (0: the keys ascend).
BytesBefore(a, b) ==
    \E i \in 1..Len(b) :
        /\ \A j \in 1..(i - 1) : j <= Len(a) /\ a[j] = b[j]
        /\ i = Len(a) + 1 \/ (i <= Len(a) /\ a[i] < b[i])
Refused(ps) == {j \in 2..Len(ps) : ~BytesBefore(ps[j - 1][1], ps[j][1])}
FirstRefused(ps) ==
    IF Refused(ps) = {} THEN 0
    ELSE CHOOSE j \in Refused(ps) : \A k \in Refused(ps) : j <= k

\* The first pair of ps whose value the element type T does not decode (0:
\* none): every value of the pairs is a Value, only the integers are an i8.
Undecodable(ps, T) ==
    IF T.kind = "Value" THEN {}
    ELSE {j \in 1..Len(ps) : ps[j][2].tag # "Integer"}
FirstUndecodable(ps, T) ==
    IF Undecodable(ps, T) = {} THEN 0
    ELSE CHOOSE j \in Undecodable(ps, T) : \A k \in Undecodable(ps, T) : j <= k

\* The offset just past the key of the j-th pair in d<pairs>e.
KeyEnd(ps, j) ==
    1 + Len(PairsBytes(SubSeq(ps, 1, j - 1))) + Len(write_str(<<>>, ps[j][1]))

\* C4: read_dict::<T> over d<pairs>e succeeds only if every key is above
\* the key before it in byte order, its result then has as many entries as
\* there are pairs, with the keys of the pairs in their order; at the first
\* key that is not above the key before it (no value before it failing to
\* decode) read_dict fails with InvalidDict, the cursor just past that key,
\* its value not decoded.
C4_KeyOrder ==
    (input.family = "dict" /\ last.op = "read_dict" /\ last.start = 0)
        => LET ps == input.pairs
               j  == FirstRefused(ps)
               b  == FirstUndecodable(ps, last.arg)
           IN  /\ last.res.ok
                   => /\ j = 0
                      /\ Len(last.res.val) = Len(ps)
                      /\ \A i \in 1..Len(ps) : last.res.val[i][1] = ps[i][1]
               /\ (j = 0 /\ b = 0) => last.res.ok
               /\ (j # 0 /\ (b = 0 \/ j <= b))
                   => last.res = Err(InvalidDict, KeyEnd(ps, j))

\* read_dict::<i8> has refused a repeated key whose value is no i8.
C4_Witness ==
    /\ input.family = "dict"
    /\ last.op = "read_dict"
    /\ last.start = 0
    /\ last.arg.kind = "int"
    /\ Len(input.pairs) = 2
    /\ input.pairs[1][1] = input.pairs[2][1]
    /\ input.pairs[2][2].tag = "List"
    /\ last.res.err = InvalidDict

---------------------------------------------------------------------------
(* Properties of decode() and of Value's decode, under SpecLead.           *)

\* C6: decode(b) returns a value only if the value decoded from offset 0
\* ends at the end of b, and it is that value; if the value decodes and a
\* byte remains after it, decode fails with ExtraneousData; finish succeeds
\* if and only if no byte remains.
C6_WholeBuffer ==
    /\ last.op = "decode"
        => LET v == decode_from(last.arg, data, 0)
           IN  /\ last.res.ok
                   => v.ok /\ v.pos = Len(data) /\ last.res.val = v.val
               /\ (v.ok /\ v.pos < Len(data))
                   => (~last.res.ok /\ last.res.err = ExtraneousData)
               /\ (v.ok /\ v.pos = Len(data)) => last.res.ok
    /\ (last.op = "finish" /\ last.start <= Len(data))
        => (last.res.ok <=> Len(data) - last.start = 0)
    /\ (last.op = "finish" /\ last.start < Len(data))
        => last.res.err = ExtraneousData

\* decode::<Value> of 0:a, the empty string and a byte after it, has failed
\* with ExtraneousData.
C6_Witness ==
    /\ data = <<B_0, B_colon, B_a>>
    /\ last.op = "decode"
    /\ last.arg.kind = "Value"
    /\ last.res.err = ExtraneousData

\* Whether a Value holds, at any depth, a Bytes whose content is UTF-8.
RECURSIVE HasUtf8Bytes(_)
HasUtf8Bytes(v) ==
    CASE v.tag = "Bytes" -> IsUtf8(v.bytes)
      [] v.tag = "List"  -> \E i \in 1..Len(v.list) : HasUtf8Bytes(v.list[i])
      [] v.tag = "Dict"  -> \E i \in 1..Len(v.dict) : HasUtf8Bytes(v.dict[i][2])
      [] OTHER           -> FALSE

\* The content of a String or Bytes.
Content(v) == IF v.tag = "String" THEN v.str ELSE v.bytes

\* C10: Value's decode dispatches on the lead byte: a success after 'd' is a
\* Dict, after 'i' an Integer, after 'l' a List, after a digit a String or
\* a Bytes of the bytes read, a String exactly when they are valid UTF-8;
\* any other lead byte b fails with InvalidByte(b), the cursor unmoved; and
\* no value it gives holds a Bytes of valid UTF-8.
C10_Dispatch ==
    (last.op = "value_decode" /\ last.start < Len(data))
        => LET b == data[last.start + 1]
               r == last.res
           IN  /\ (r.ok /\ b = B_d) => r.val.tag = "Dict"
               /\ (r.ok /\ b = B_i) => r.val.tag = "Integer"
               /\ (r.ok /\ b = B_l) => r.val.tag = "List"
               /\ (r.ok /\ b >= B_0 /\ b <= B_9)
                   => /\ r.val.tag \in {"String", "Bytes"}
                      /\ r.val.tag = "String" <=> IsUtf8(Content(r.val))
                      /\ Content(r.val)
                           = SubSeq(data, r.pos - Len(Content(r.val)) + 1, r.pos)
               /\ (b \notin {B_d, B_i, B_l} /\ ~(b >= B_0 /\ b <= B_9))
                   => r = Err(InvalidByte(b), last.start)
               /\ r.ok => ~HasUtf8Bytes(r.val)

\* Value's decode of l1:\xffe has given a list of one Bytes.
C10_Witness ==
    /\ last.op = "value_decode"
    /\ last.start = 0
    /\ last.res.ok
    /\ last.res.val = VList(<<VBytes(<<B_FF>>)>>)

---------------------------------------------------------------------------
(* SpecRoundTrip: a Value is encoded, and the encoding, or a proper prefix *)
(* of it, is decoded.                                                      *)

Atoms == {VInteger(-10), VBytes(<<B_a>>), VBytes(<<B_FF>>), VString(<<B_a>>)}

\* The strictly ascending sequences of n keys: the key sets a BTreeMap of n
\* entries can have.
KeySeqs(n) ==
    {ks \in [1..n -> DictKeys] : \A i \in 1..(n - 1) : LexLess(ks[i], ks[i + 1])}

\* Sized(n): the Values of n nodes (a scalar or a container is a node).
\* ListsOf(t): the sequences of Values of t nodes in all.
RECURSIVE Sized(_)
RECURSIVE ListsOf(_)
ListsOf(t) ==
    IF t = 0 THEN {<<>>}
    ELSE UNION {{<<v>> \o r : v \in Sized(k), r \in ListsOf(t - k)} : k \in 1..t}
Sized(n) ==
    (IF n = 1 THEN Atoms ELSE {})
    \cup {VList(l) : l \in ListsOf(n - 1)}
    \cup UNION {{VDict([i \in 1..Len(l) |-> <<ks[i], l[i]>>]) : ks \in KeySeqs(Len(l))}
                  : l \in ListsOf(n - 1)}

\* The string of test_errors' 10:foo, made up to its ten bytes.
Str10 == VString(Name_foo \o Name_foo \o Name_foo \o Name_a)

Values == UNION {Sized(n) : n \in 1..MaxNodes} \cup {Str10}

\* The type a typed decode of the encoding of v names.
TypeOf(v) ==
    CASE v.tag = "Integer" -> I64
      [] v.tag = "Bytes"   -> TByteString
      [] v.tag = "String"  -> TString
      [] v.tag = "List"    -> TVec(TValue)
      [] v.tag = "Dict"    -> TMap(TValue)

InitRoundTrip ==
    /\ input \in [family : {"value"}, value : Values]
    /\ data = <<>>
    /\ pos = 0
    /\ last = New
    /\ out = <<>>
    /\ usize_is_u64 = TRUE
    /\ overflow_checks \in BOOLEAN
    /\ frames = <<>>

\* encode(&value)
Encode ==
    /\ last.op = "new"
    /\ out' = encode(input.value)
    /\ last' = Call("encode", Unit, 0, Ok(Unit, 0))
    /\ UNCHANGED <<data, pos, input, usize_is_u64, overflow_checks, frames>>

\* decode::<T>(&encoded), T being Value or the type of the value.
DecodeEncoded ==
    /\ last.op = "encode"
    /\ data' = out
    /\ \E T \in {TValue, TypeOf(input.value)} :
           last' = Call("decode", T, 0, decode(T, out))
    /\ UNCHANGED <<pos, out, input, usize_is_u64, overflow_checks, frames>>

\* decode::<T>(&encoded[..n]) for n below the length of the encoding.
DecodePrefix ==
    /\ last.op = "encode"
    /\ \E n \in 0..(Len(out) - 1), T \in {TValue, TypeOf(input.value)} :
           /\ data' = SubSeq(out, 1, n)
           /\ last' = Call("decode", T, 0, decode(T, SubSeq(out, 1, n)))
    /\ UNCHANGED <<pos, out, input, usize_is_u64, overflow_checks, frames>>

NextRoundTrip == Encode \/ DecodeEncoded \/ DecodePrefix

SpecRoundTrip == InitRoundTrip /\ [][NextRoundTrip]_vars

\* C1 as claimed: decode::<Value>(encode(v)) succeeds and gives a value
\* equal to v, for every Value v, a Bytes of valid UTF-8 included.
C1_RoundTrip ==
    (last.op = "decode" /\ last.arg.kind = "Value" /\ data = out)
        => (last.res.ok /\ last.res.val = input.value)

\* v with every Bytes of valid UTF-8 in it made the String of these bytes.
RECURSIVE AsDecoded(_)
AsDecoded(v) ==
    CASE v.tag = "Bytes" -> IF IsUtf8(v.bytes) THEN VString(v.bytes) ELSE v
      [] v.tag = "List"  -> VList([i \in 1..Len(v.list) |-> AsDecoded(v.list[i])])
      [] v.tag = "Dict"  ->
             VDict([i \in 1..Len(v.dict) |->
                        <<v.dict[i][1], AsDecoded(v.dict[i][2])>>])
      [] OTHER           -> v

\* C1, amended: decode::<Value>(encode(v)) succeeds and gives v with every
\* Bytes of valid UTF-8 replaced by the String of the same bytes; it gives
\* v itself when v holds no such Bytes.
C1_RoundTripAmended ==
    (last.op = "decode" /\ last.arg.kind = "Value" /\ data = out)
        => /\ last.res.ok
           /\ last.res.val = AsDecoded(input.value)
           /\ ~HasUtf8Bytes(input.value) => last.res.val = input.value

\* A dictionary of two entries, one a Bytes that is no UTF-8, has come back
\* from decode as it was.
C1_Witness ==
    /\ last.op = "decode"
    /\ last.arg.kind = "Value"
    /\ data = out
    /\ input.value.tag = "Dict"
    /\ Len(input.value.dict) = 2
    /\ input.value.dict[1][2] = VBytes(<<B_FF>>)
    /\ last.res.ok
    /\ last.res.val = input.value

\* C5: decode of a proper prefix of encode(v), the empty one included, as a
\* Value or as the type of v, fails with Eof and with no other error.
C5_Truncation ==
    (last.op = "decode" /\ Len(data) < Len(out))
        => (~last.res.ok /\ last.res.err = Eof)

\* decode::<String> of 10:foo has failed with Eof.
C5_Witness ==
    /\ data = <<B_0 + 1, B_0, B_colon>> \o Name_foo
    /\ last.op = "decode"
    /\ last.arg.kind = "String"
    /\ last.res.err = Eof

---------------------------------------------------------------------------
(* SpecItem: one item in a larger buffer.  The buffer is the encoding of a *)
(* Value between the bytes before and after it, or a byte string whose     *)
(* length prefix is among the largest numbers of usize; the cursor is set  *)
(* anywhere and the items from there are decoded, skipped or hashed, on a  *)
(* target of either width.                                                 *)

MaxItem == 2

ItemValues == UNION {Sized(n) : n \in 1..MaxItem}
ItemBefore == {<<>>, <<B_l>>}
ItemAfter == {<<>>, <<B_e>>}
ItemInputs ==
    [family : {"item"}, before : ItemBefore, value : ItemValues, after : ItemAfter]
    \cup [family : {"length"}, length : {UsizeModulus - 1 - k : k \in 0..MaxCount}]

ItemBuffer(in) ==
    IF in.family = "item" THEN in.before \o encode(in.value) \o in.after
    ELSE FormatNat(in.length) \o <<B_colon>>

InitItem ==
    /\ input \in ItemInputs
    /\ data = ItemBuffer(input)
    /\ pos = 0
    /\ last = New
    /\ out = <<>>
    /\ usize_is_u64 \in BOOLEAN
    /\ overflow_checks \in BOOLEAN
    /\ frames = <<>>

\* set_position(s) on the new decoder.
Seek ==
    /\ last.op = "new"
    /\ \E s \in 0..(Len(data) + PosSlack) : Does("set_position", s, Ok(Unit, s))

NextItem == Seek \/ ValueDecode \/ SkipItem \/ HashDecode

SpecItem == InitItem /\ [][NextItem]_vars

\* C11 as claimed: Hash's decode from offset s fails as skip_item fails
\* from s; when it succeeds, e being the offset skip_item reaches from s,
\* the digest is that of buffer[s..e], the cursor is at e, and Hash's decode
\* over the bytes buffer[s..e] alone gives the same digest.
C11_HashRange ==
    last.op = "hash_decode"
        => LET s == last.start
               r == skip_item(data, s)
           IN  IF ~r.ok THEN ~last.res.ok /\ last.res.err = r.err
               ELSE last.res.ok
                        => /\ s <= r.pos
                           /\ r.pos <= Len(data)
                           /\ last.res.val = Sha1(SubSeq(data, s + 1, r.pos))
                           /\ last.res.pos = r.pos
                           /\ hash_decode(SubSeq(data, s + 1, r.pos), 0)
                                  = Ok(last.res.val, r.pos - s)

\* C15: whenever Value's decode from an offset s succeeds and leaves the
\* cursor at e, skip_item from s succeeds and leaves the cursor at e.
C15_SkipAgrees ==
    (last.op = "value_decode" /\ last.res.ok)
        => skip_item(data, last.start) = Ok(Unit, last.res.pos)

\* Value's decode has read the dictionary de of the buffer ldee, from
\* offset 1 to offset 3.
C15_Witness ==
    /\ input.family = "item"
    /\ input.before = <<B_l>>
    /\ input.value = VDict(<<>>)
    /\ input.after = <<B_e>>
    /\ last.op = "value_decode"
    /\ last.start = 1
    /\ last.res.ok
    /\ last.res.pos = 3
    /\ last.res.val = VDict(<<>>)

---------------------------------------------------------------------------
(* SpecScan: skip_item step by step.  A step runs one invocation up to its *)
(* next call of skip_item, its return or its error; the invocations in     *)
(* progress are the frames.  The buffers are those of SpecItem, and the    *)
(* lists and dictionaries whose first item is a byte string with a length  *)
(* prefix among the largest numbers of usize.  The thread that called      *)
(* skip_item keeps running: weak fairness of the steps.                    *)

\* at: "entry" (at the match), "list" or "dict" (at the condition of the
\* while loop), "dict_value" (between the two calls of the loop body).
\* iter: None, or Some(the cursor when the current iteration began).
Frame(at, iter) == [at |-> at, iter |-> iter]

Top == frames[Len(frames)]

ScanInputs ==
    ItemInputs
    \cup [family : {"wrap"}, before : {<<B_l>>, <<B_d>>},
          length : {UsizeModulus - k : k \in 1..(Len(FormatNat(UsizeModulus - 1)) + 1)}]

ScanBuffer(in) ==
    IF in.family = "wrap" THEN in.before \o FormatNat(in.length) \o <<B_colon>>
    ELSE ItemBuffer(in)

InitScan ==
    /\ input \in ScanInputs
    /\ data = ScanBuffer(input)
    /\ pos = 0
    /\ last = New
    /\ out = <<>>
    /\ usize_is_u64 \in BOOLEAN
    /\ overflow_checks \in BOOLEAN
    /\ frames = <<>>

\* The outermost invocation returns res: skip_item is over.
Returns(res) ==
    /\ frames' = <<>>
    /\ last' = Call("skip_item", Unit, last.start, res)
    /\ pos' = res.pos
    /\ UNCHANGED <<data, out, input, usize_is_u64, overflow_checks>>

\* The invocation in progress goes on as frame f, or calls skip_item from
\* there, with the cursor at p.
GoesOn(fs, p) ==
    /\ frames' = SubSeq(frames, 1, Len(frames) - 1) \o fs
    /\ pos' = p
    /\ UNCHANGED <<data, last, out, input, usize_is_u64, overflow_checks>>

\* The invocation in progress returns Ok(()) with the cursor at p.
Done(p) ==
    IF Len(frames) = 1 THEN Returns(Ok(Unit, p)) ELSE GoesOn(<<>>, p)

\* d.skip_item() is called.
ScanCall ==
    /\ last.op = "new"
    /\ frames = <<>>
    /\ frames' = <<Frame("entry", None)>>
    /\ last' = Call("call", "skip_item", pos, Ok(Unit, pos))
    /\ UNCHANGED <<data, pos, out, input, usize_is_u64, overflow_checks>>

\* match try!(self.peek_byte()): the arms of d and l read the byte and come
\* to their loop; the other arms call no skip_item and run to their end.
ScanEntry ==
    /\ frames # <<>>
    /\ Top.at = "entry"
    /\ LET b == peek_byte(data, pos)
           r == read_byte(data, pos)
           s == skip_item(data, pos)
       IN  IF ~b.ok THEN Returns(b)
           ELSE IF b.val \in {B_d, B_l}
           THEN IF ~r.ok THEN Returns(r)
                ELSE GoesOn(<<Frame(IF b.val = B_d THEN "dict" ELSE "list", None)>>,
                            r.pos)
           ELSE IF s.ok THEN Done(s.pos) ELSE Returns(s)

\* while try!(self.peek_byte()) != b'e' { try!(self.skip_item()); }
\* self.expect(b'e')
ScanList ==
    /\ frames # <<>>
    /\ Top.at = "list"
    /\ LET b == peek_byte(data, pos)
           e == expect(data, pos, B_e)
       IN  IF ~b.ok THEN Returns(b)
           ELSE IF b.val # B_e
           THEN GoesOn(<<Frame("list", Some(pos)), Frame("entry", None)>>, pos)
           ELSE IF e.ok THEN Done(e.pos) ELSE Returns(e)

\* while try!(self.peek_byte()) != b'e' { try!(self.skip_item()); ... }
\* self.expect(b'e')
ScanDict ==
    /\ frames # <<>>
    /\ Top.at = "dict"
    /\ LET b == peek_byte(data, pos)
           e == expect(data, pos, B_e)
       IN  IF ~b.ok THEN Returns(b)
           ELSE IF b.val # B_e
           THEN GoesOn(<<Frame("dict_value", Some(pos)), Frame("entry", None)>>, pos)
           ELSE IF e.ok THEN Done(e.pos) ELSE Returns(e)

\* The second try!(self.skip_item()) of the loop body of a dictionary.
ScanDictValue ==
    /\ frames # <<>>
    /\ Top.at = "dict_value"
    /\ GoesOn(<<Frame("dict", Top.iter), Frame("entry", None)>>, pos)

NextScan == ScanCall \/ ScanEntry \/ ScanList \/ ScanDict \/ ScanDictValue

SpecScan == InitScan /\ [][NextScan]_vars /\ WF_vars(NextScan)

\* C12 as claimed: between two iterations of the loop of a list or of a
\* dictionary in skip_item the cursor strictly advances, so that the scan
\* of a finite buffer comes to its end: whenever an invocation is back at
\* the condition of its loop after an iteration, the cursor is beyond where
\* it was when that iteration began.
C12_CursorAdvances ==
    (frames # <<>> /\ Top.at \in {"list", "dict"} /\ Top.iter # None)
        => pos > Top.iter[1]

---------------------------------------------------------------------------
(* SpecSequence: values are written one after another to a new Encoder,    *)
(* into_bytes gives the buffer to a Decoder, and the Decoder calls the     *)
(* read that matches each write, in the order of the writes, then finish.  *)
(* The writes are any MaxWrites writes, or the five of test_encoder.       *)

MaxWrites == 2

Name_spam == <<115, 112, 97, 109>>
Name_eggs == <<101, 103, 103, 115>>

Written(op, T, v) == [op |-> op, type |-> T, value |-> v]

\* The writes of test_encoder.
Writes_test_encoder ==
    << Written("write_str", TString, Name_spam),
       Written("write_bytes", TByteString, Name_eggs),
       Written("write_integer", I32, 123),
       Written("write_list", TVec(I32), <<1, 2, 3>>),
       Written("write_dict", TMap(TString), << <<Name_foo, Name_bar>> >>) >>

\* The values a write is called with.
AnyWrites ==
    {Written("write_str", TString, v) : v \in {<<>>, Name_a}}
    \cup {Written("write_bytes", TByteString, v) : v \in {<<>>, <<B_FF>>, <<B_i, B_e>>}}
    \cup {Written("write_integer", I64, v) : v \in {-10, 0}}
    \cup {Written("write_integer", I8, v) : v \in {-128, 127}}
    \cup {Written("write_list", TVec(I32), v) : v \in {<<>>, <<0, -1>>}}
    \cup {Written("write_list", TVec(TString), v) : v \in {<<Name_a, <<>>>>}}
    \cup {Written("write_dict", TMap(TString), v) : v \in {<<>>}}
    \cup {Written("write_dict", TMap(I8), v) :
              v \in {<< <<Name_a, -1>>, <<Name_foo, 7>> >>}}

\* The writes the program may call next with operation op.
NextWrites(op) ==
    LET n == Len(input.writes)
    IN  IF input.family = "test_encoder"
        THEN {w \in {Writes_test_encoder[i] : i \in {n + 1} \cap 1..Len(Writes_test_encoder)} :
                  w.op = op}
        ELSE {w \in AnyWrites : w.op = op /\ n < MaxWrites}

WriteOps == {"write_str", "write_bytes", "write_integer", "write_list", "write_dict"}
ReadOps == {"read_str", "read_bytes", "read_integer", "read_list", "read_dict"}

InitSequence ==
    /\ input \in [family : {"any", "test_encoder"}, writes : {<<>>}]
    /\ data = <<>>
    /\ pos = 0
    /\ last = New
    /\ out = <<>>
    /\ usize_is_u64 = TRUE
    /\ overflow_checks \in BOOLEAN
    /\ frames = <<>>

\* A write of the Encoder has made the buffer e.
Writes(w, e) ==
    /\ last.op \in {"new"} \cup WriteOps
    /\ out' = e
    /\ input' = [input EXCEPT !.writes = Append(@, w)]
    /\ last' = Call(w.op, w.value, Len(out), Ok(Unit, Len(e)))
    /\ UNCHANGED <<data, pos, usize_is_u64, overflow_checks, frames>>

WriteStr ==
    \E w \in NextWrites("write_str") : Writes(w, write_str(out, w.value))
WriteBytes ==
    \E w \in NextWrites("write_bytes") : Writes(w, write_bytes(out, w.value))
WriteInteger ==
    \E w \in NextWrites("write_integer") : Writes(w, write_integer(out, w.value))
WriteList ==
    \E w \in NextWrites("write_list") :
        Writes(w, write_list(w.type.elem, out, w.value))
WriteDict ==
    \E w \in NextWrites("write_dict") :
        Writes(w, write_dict(w.type.elem, out, w.value))

\* e.into_bytes(), and Decoder::new over the bytes.
IntoBytes ==
    /\ last.op \in {"new"} \cup WriteOps
    /\ data' = out
    /\ last' = Call("into_bytes", Unit, 0, Ok(out, 0))
    /\ UNCHANGED <<pos, out, input, usize_is_u64, overflow_checks, frames>>

\* The number of reads so far.
ReadsDone == IF last.op = "into_bytes" THEN 0 ELSE last.arg.index

\* The Decoder has read so far what was written, and more was written.
Reading ==
    /\ last.op \in {"into_bytes"} \cup ReadOps
    /\ last.res.ok
    /\ ReadsDone < Len(input.writes)

NextWritten == input.writes[ReadsDone + 1]

\* The Decoder calls the read rd.
ReadsBack(rd, res) ==
    /\ last' = Call(rd, [index |-> ReadsDone + 1], pos, res)
    /\ pos' = res.pos
    /\ UNCHANGED <<data, out, input, usize_is_u64, overflow_checks, frames>>

ReadBackStr ==
    /\ Reading
    /\ NextWritten.op = "write_str"
    /\ ReadsBack("read_str", read_str(data, pos))
ReadBackBytes ==
    /\ Reading
    /\ NextWritten.op = "write_bytes"
    /\ ReadsBack("read_bytes", read_bytes(data, pos))
ReadBackInteger ==
    /\ Reading
    /\ NextWritten.op = "write_integer"
    /\ ReadsBack("read_integer", read_integer(NextWritten.type, data, pos))
ReadBackList ==
    /\ Reading
    /\ NextWritten.op = "write_list"
    /\ ReadsBack("read_list", read_list(NextWritten.type.elem, data, pos))
ReadBackDict ==
    /\ Reading
    /\ NextWritten.op = "write_dict"
    /\ ReadsBack("read_dict", read_dict(NextWritten.type.elem, data, pos))

\* d.finish() after the last read.
FinishReads ==
    /\ last.op \in {"into_bytes"} \cup ReadOps
    /\ last.res.ok
    /\ ReadsDone = Len(input.writes)
    /\ last' = Call("finish", [index |-> ReadsDone], pos, finish(data, pos))
    /\ UNCHANGED <<data, pos, out, input, usize_is_u64, overflow_checks, frames>>

NextSequence ==
    \/ WriteStr \/ WriteBytes \/ WriteInteger \/ WriteList \/ WriteDict
    \/ IntoBytes
    \/ ReadBackStr \/ ReadBackBytes \/ ReadBackInteger \/ ReadBackList
    \/ ReadBackDict
    \/ FinishReads

SpecSequence == InitSequence /\ [][NextSequence]_vars

\* The wire encodings of the first n writes, one after another.
RECURSIVE Wire(_, _)
Wire(ws, n) ==
    IF n = 0 THEN <<>>
    ELSE Wire(ws, n - 1) \o encode_to(ws[n].type, <<>>, ws[n].value)

\* C13: the buffer of the Encoder is the wire encodings of the values
\* written so far, one after another in the order of the writes; the k-th
\* matching read of a Decoder over into_bytes starts where the k-th
\* encoding starts, returns the k-th value written and ends where that
\* encoding ends; finish after the last read succeeds; and the five writes
\* of test_encoder give 4:spam4:eggsi123eli1ei2ei3eed3:foo3:bare.
C13_Sequential ==
    LET ws == input.writes
    IN  /\ out = Wire(ws, Len(ws))
        /\ last.op \in ReadOps
               => /\ last.res.ok
                  /\ last.res.val = ws[last.arg.index].value
                  /\ last.start = Len(Wire(ws, last.arg.index - 1))
                  /\ last.res.pos = Len(Wire(ws, last.arg.index))
        /\ last.op = "finish" => last.res.ok
        /\ (input.family = "test_encoder" /\ Len(ws) = Len(Writes_test_encoder))
               => out = Buf_test_decoder

\* The five values of test_encoder have been written and read back, and
\* finish has been called.
C13_Witness ==
    /\ input.family = "test_encoder"
    /\ input.writes = Writes_test_encoder
    /\ data = Buf_test_decoder
    /\ last.op = "finish"
    /\ last.arg.index = 5
    /\ last.res.ok

---------------------------------------------------------------------------
(* SpecRecord: a record is encoded by write_struct, its callable calling   *)
(* write_field and write_option in the order of the fields, and the bytes  *)
(* are decoded by read_struct.  The records are those of the structs Test  *)
(* and Test2 of test_struct.                                               *)

Name_alpha   == <<97, 108, 112, 104, 97>>
Name_bravo   == <<98, 114, 97, 118, 111>>
Name_charlie == <<99, 104, 97, 114, 108, 105, 101>>
Name_delta   == <<100, 101, 108, 116, 97>>
Name_echo    == <<101, 99, 104, 111>>

\* struct Test { alpha: String, bravo: u32, charlie: Option<u32>,
\*               delta: Vec<i32>, echo: ByteString }
Test ==
    << Field(Name_alpha, TString, FALSE), Field(Name_bravo, U32, FALSE),
       Field(Name_charlie, U32, TRUE), Field(Name_delta, TVec(I32), FALSE),
       Field(Name_echo, TByteString, FALSE) >>

\* The record a of test_struct, and its bytes.
Test_a == <<Name_foo, 8675309, Some(99), <<0, -1, 1>>, <<170, 187, 204, 221, 238, 255>> >>
Buf_test_struct ==
    << 100,
       53, 58, 97, 108, 112, 104, 97, 51, 58, 102, 111, 111,
       53, 58, 98, 114, 97, 118, 111, 105, 56, 54, 55, 53, 51, 48, 57, 101,
       55, 58, 99, 104, 97, 114, 108, 105, 101, 105, 57, 57, 101,
       53, 58, 100, 101, 108, 116, 97, 108, 105, 48, 101, 105, 45, 49, 101, 105, 49, 101, 101,
       52, 58, 101, 99, 104, 111, 54, 58, 170, 187, 204, 221, 238, 255,
       101 >>

Records ==
    [type : {Test},
     value : {Name_foo, <<>>} \X {8675309, 0} \X {None, Some(99)}
                 \X {<<0, -1, 1>>, <<>>} \X {Test_a[5], <<>>}]
    \cup [type : {Test2},
          value : {None, Some(-1), Some(7)} \X {0, -1, 111}]

InitRecord ==
    /\ input \in Records
    /\ data = <<>>
    /\ pos = 0
    /\ last = New
    /\ out = <<>>
    /\ usize_is_u64 = TRUE
    /\ overflow_checks \in BOOLEAN
    /\ frames = <<>>

\* The Encoder has run up to the end of a call, after field number index,
\* and its buffer is e.
Wrote(op, index, arg, e) ==
    /\ out' = e
    /\ last' = Call(op, [index |-> index, arg |-> arg], Len(out), Ok(Unit, Len(e)))
    /\ UNCHANGED <<data, pos, input, usize_is_u64, overflow_checks, frames>>

\* The callable of write_struct is at its next call.
InStruct ==
    /\ last.op \in {"write_struct", "write_field", "write_option"}
    /\ last.arg.index < Len(input.type)

NextField == input.type[last.arg.index + 1]
NextFieldValue == input.value[last.arg.index + 1]

\* e.write_struct(...) up to the call of its callable.
WriteStructBegin ==
    /\ last.op = "new"
    /\ Wrote("write_struct", 0, Unit, write_byte(out, B_d))

WriteField ==
    /\ InStruct
    /\ ~NextField.optional
    /\ Wrote("write_field", last.arg.index + 1, NextFieldValue,
             write_field(NextField.type, out, NextField.name, NextFieldValue))

WriteOption ==
    /\ InStruct
    /\ NextField.optional
    /\ Wrote("write_option", last.arg.index + 1, NextFieldValue,
             write_option(NextField.type, out, NextField.name, NextFieldValue))

\* The callable has returned: write_struct writes the e.
WriteStructEnd ==
    /\ last.op \in {"write_struct", "write_field", "write_option"}
    /\ last.arg.index = Len(input.type)
    /\ Wrote("encode", last.arg.index, Unit, write_byte(out, B_e))

\* decode::<T>(&bytes), T being the struct.
DecodeRecord ==
    /\ last.op = "encode"
    /\ data' = out
    /\ last' = Call("decode", TStruct(input.type), 0, decode(TStruct(input.type), out))
    /\ UNCHANGED <<pos, out, input, usize_is_u64, overflow_checks, frames>>

NextRecord ==
    \/ WriteStructBegin \/ WriteField \/ WriteOption \/ WriteStructEnd
    \/ DecodeRecord

SpecRecord == InitRecord /\ [][NextRecord]_vars

\* The bytes of the first n fields of the record: for each field that is
\* not an absent optional one, the name as a string, then the value.
RECURSIVE FieldBytes(_, _, _)
FieldBytes(fs, ts, n) ==
    IF n = 0 THEN <<>>
    ELSE FieldBytes(fs, ts, n - 1)
         \o (IF fs[n].optional /\ ts[n] = None THEN <<>>
             ELSE write_str(<<>>, fs[n].name)
                  \o encode_to(fs[n].type, <<>>,
                               IF fs[n].optional THEN ts[n][1] ELSE ts[n]))

\* C14: decode of the bytes of a record written by write_struct, with
\* write_field and write_option called in the order of its fields, gives
\* the record, an optional field being present or absent (read_option
\* gives None for an absent one); write_option of an absent value leaves
\* the buffer of the Encoder as it was: no key, no placeholder.
C14_RecordRoundTrip ==
    /\ last.op = "decode"
           => /\ last.res.ok
              /\ last.res.val = input.value
              /\ data = encode_to(TStruct(input.type), <<>>, input.value)
    /\ last.op \in {"write_field", "write_option"}
           => out = <<B_d>> \o FieldBytes(input.type, input.value, last.arg.index)
    /\ (last.op = "write_option" /\ last.arg.arg = None)
           => /\ Len(out) = last.start
              /\ out = <<B_d>> \o FieldBytes(input.type, input.value,
                                             last.arg.index - 1)
    /\ (last.op = "encode" /\ input.value = Test_a) => out = Buf_test_struct

\* A Test2 with bar absent has come back from decode with bar None, from
\* the bytes d3:fooi111ee.
C14_Witness ==
    /\ input.type = Test2
    /\ input.value = <<None, 111>>
    /\ data = <<B_d, 51, 58, 102, 111, 111, B_i, 49, 49, 49, B_e, B_e>>
    /\ last.op = "decode"
    /\ last.res.ok
    /\ last.res.val = <<None, 111>>

---------------------------------------------------------------------------
(* SpecStruct: the record protocol over dictionaries with ascending keys:  *)
(* the keys of test_struct_fields, each there or not.  bar and foo are the *)
(* fields of Test2; a, dadada and zz are fields it does not know.          *)

StructKeys == <<Name_a, Name_bar, Name_dadada, Name_foo, Name_zz>>

\* The values a key is given: an integer, or a value that is no integer.
KeyValues(k) ==
    CASE k = Name_a      -> {VString(<<B_a>>), VList(<<VInteger(1)>>)}
      [] k = Name_bar    -> {VInteger(999), VList(<<>>)}
      [] k = Name_dadada -> {VInteger(1), VDict(<<<<Name_a, VInteger(1)>>>>)}
      [] k = Name_foo    -> {VInteger(111), VInteger(-1)}
      [] k = Name_zz     -> {VInteger(1), VString(<<>>)}

\* The dictionaries over the keys ks, in the order of ks.
RECURSIVE EntriesOver(_)
EntriesOver(ks) ==
    IF ks = <<>> THEN {<<>>}
    ELSE LET rest == EntriesOver(Tail(ks))
         IN  rest \cup {<<<<Head(ks), v>>>> \o r : v \in KeyValues(Head(ks)), r \in rest}

InitStruct ==
    /\ input \in [family : {"struct"}, entries : EntriesOver(StructKeys)]
    /\ data = encode(VDict(input.entries))
    /\ pos = 0
    /\ last = New
    /\ out = <<>>
    /\ usize_is_u64 = TRUE
    /\ overflow_checks \in BOOLEAN
    /\ frames = <<>>

\* expect(b'd'), as read_struct begins: the cursor enters the dictionary.
Open ==
    /\ Usable
    /\ last.op = "new"
    /\ Does("expect", B_d, expect(data, pos, B_d))

NextStruct == Open \/ ReadField \/ ReadOption \/ ReadStruct

SpecStruct == InitStruct /\ [][NextStruct]_vars

\* The offset just past the i-th entry of the dictionary (past 'd' for 0).
Boundary(i) == 1 + Len(PairsBytes(SubSeq(input.entries, 1, i)))

\* The entries the cursor has passed when it is at offset p, if p is the
\* offset of a key or of the closing 'e' (-1 if not).
EntryAt(p) ==
    IF \E i \in 0..Len(input.entries) : Boundary(i) = p
    THEN CHOOSE i \in 0..Len(input.entries) : Boundary(i) = p
    ELSE -1

\* The entries after the i-th with the key name.
Found(i, name) ==
    {j \in (i + 1)..Len(input.entries) : input.entries[j][1] = name}

\* What decoding the Value v as the type T gives: an i32 takes an Integer.
DecodesAs(v, T) == T.kind = "Value" \/ v.tag = "Integer"
ValueAs(v, T) == IF T.kind = "Value" THEN v ELSE v.int

\* C8: read_field(name) with the cursor at a key of a dictionary with
\* ascending keys (or at its closing 'e'): if an entry at or after the
\* cursor has the key name, and its value decodes, the result is that value
\* and the cursor is just past it; if none has, read_field fails with
\* MissingField and the cursor is where it was when the call began.
C8_ReadField ==
    (last.op = "read_field" /\ EntryAt(last.start) >= 0)
        => LET i    == EntryAt(last.start)
               name == last.arg.name
               T    == last.arg.type
           IN  /\ \A j \in Found(i, name) :
                      DecodesAs(input.entries[j][2], T)
                          => last.res = Ok(ValueAs(input.entries[j][2], T),
                                           Boundary(j))
               /\ Found(i, name) = {}
                      => /\ last.res = Err(MissingField, last.start)
                         /\ pos = last.start

\* read_field("bar") has missed at the key dadada, after a read_field that
\* moved the cursor there, and the cursor is back at that key.
C8_Witness ==
    /\ last.op = "read_field"
    /\ last.arg.name = Name_bar
    /\ EntryAt(last.start) >= 1
    /\ EntryAt(last.start) < Len(input.entries)
    /\ input.entries[EntryAt(last.start) + 1][1] = Name_dadada
    /\ last.res.err = MissingField
    /\ pos = last.start

\* The entry of the dictionary with the key name, in a sequence of one (the
\* empty sequence: there is none).
EntryOf(name) ==
    IF Found(0, name) = {} THEN <<>>
    ELSE <<input.entries[CHOOSE j \in Found(0, name) : TRUE][2]>>

\* C9: Test2's decode (read_struct, in it read_option("bar") and then
\* read_field("foo")) over a dictionary with ascending keys that has foo,
\* the values under bar and foo integers, gives the value under foo and
\* Some of the value under bar, None when bar is absent, whatever fields
\* it does not know sit before, between or after them, and leaves the
\* cursor just past the closing 'e'; read_option of a key that is absent at
\* and after the cursor gives None and leaves the cursor where it was.
C9_UnknownFields ==
    /\ ( /\ last.op = "read_struct"
         /\ last.start = 0
         /\ EntryOf(Name_foo) # <<>>
         /\ EntryOf(Name_bar) # <<>> => EntryOf(Name_bar)[1].tag = "Integer" )
        => last.res
             = Ok(<< IF EntryOf(Name_bar) = <<>> THEN None
                     ELSE Some(EntryOf(Name_bar)[1].int),
                     EntryOf(Name_foo)[1].int >>,
                  Len(data))
    /\ ( /\ last.op = "read_option"
         /\ EntryAt(last.start) >= 0
         /\ Found(EntryAt(last.start), last.arg.name) = {} )
        => last.res = Ok(None, last.start)

\* Test2's decode of the second buffer of test_struct_fields (a, dadada,
\* foo, zz; no bar) has given Test2 { bar: None, foo: 111 }.
C9_Witness ==
    /\ last.op = "read_struct"
    /\ last.start = 0
    /\ Len(input.entries) = 4
    /\ EntryOf(Name_bar) = <<>>
    /\ last.res = Ok(<<None, 111>>, Len(data))

===========================================================================
